---- MODULE Spec2Model ----
(***************************************************************************)
(* State-machine model of plugins/module_utils/python_framework_actions.py *)
(* (epfl_si.python_frameworks): the temporary-filesystem backends, the     *)
(* composed subprocess program, the forked runner and the fragment parser. *)
(*                                                                         *)
(* Python strings are modelled as sequences of one-character strings, so   *)
(* that os.path.join, os.path.splitext, str.startswith, slicing and the    *)
(* '%s_%d%s' format are computed the way the code computes them.           *)
(***************************************************************************)
EXTENDS Integers, Sequences, FiniteSets, TLC

VARIABLES
    disk,       \* the file namespace: path -> content (DIR for a directory)
    disk0,      \* what was on disk before the instance was used (never changes)
    fs,         \* the TmpFilesystemBase instance: its attributes, by source name
    args,       \* the constructor arguments fs was built from (never changes)
    calls,      \* history of the calls made on fs, with their outcomes
    text,       \* module.params['postcondition_class']: the raw user script
    script,     \* the PostconditionParser object, once constructed
    runner,     \* the ForkedRunnerBase object: check_mode, inhibit_cleanup
    pc,         \* where PythonFrameworkActionBase.run() stands
    error,      \* the exception run() ended with, if any
    program,    \* the text python_script_multiline_string() composed
    child,      \* the subprocess running the composed program
    exit_code,  \* the argument of sys.exit
    events,     \* launch / termination / cleanup / exit, in the order they happen
    sys_path,   \* sys.path of the calling process
    procs       \* concurrent callers of make_file / tmpdir: where each one stands

fsvars == <<disk, disk0, fs, args, calls>>
runvars ==
    <<text, script, runner, pc, error, program, child, exit_code, events, sys_path>>
vars == <<disk, disk0, fs, args, calls, text, script, runner, pc, error, program,
          child, exit_code, events, sys_path, procs>>

----------------------------------------------------------------------------
(* Bounds *)

\* number of copy_file / make_file / cleanup / translate calls on one instance
MaxCalls == 3

\* the same, on a MountedVolumeTmpFilesystem instance
MaxMountedCalls == 2

----------------------------------------------------------------------------
(* Strings *)

SEP == "/"
EXTSEP == "."

REPORT_TXT == <<"r","e","p","o","r","t",".","t","x","t">>
NOTES == <<"n","o","t","e","s">>
ANSIBLE_TMP == <<".","a","n","s","i","b","l","e","_","t","m","p">>
CURDIR == <<".">>
TMPBASE == <<"/","t">>
PAYLOAD_ZIP == <<"/","s","/","a","n","s","i","b","l","e","_","p",".","z","i","p">>

DIR == "<dir>"
EMPTY == ""
OLD == "old"

\* str.startswith
StartsWith(s, prefix) ==
    /\ Len(prefix) <= Len(s)
    /\ SubSeq(s, 1, Len(prefix)) = prefix

\* str.endswith
EndsWith(s, suffix) ==
    /\ Len(suffix) <= Len(s)
    /\ SubSeq(s, Len(s) - Len(suffix) + 1, Len(s)) = suffix

\* str.rfind for one character, 1-based; 0 when absent (Python: -1)
RFind(s, c) ==
    LET hits == {i \in 1..Len(s) : s[i] = c}
    IN IF hits = {} THEN 0 ELSE CHOOSE i \in hits : \A j \in hits : j <= i

\* '%d' % n
RECURSIVE IntToStr(_)
IntToStr(n) ==
    LET digit == <<"0","1","2","3","4","5","6","7","8","9">>
    IN IF n < 10 THEN <<digit[n + 1]>>
       ELSE IntToStr(n \div 10) \o <<digit[(n % 10) + 1]>>

\* os.path.join(a, b), POSIX
join(a, b) ==
    IF StartsWith(b, <<SEP>>) THEN b
    ELSE IF a = <<>> \/ EndsWith(a, <<SEP>>) THEN a \o b
    ELSE a \o <<SEP>> \o b

\* os.path.basename(p), POSIX
basename(p) == SubSeq(p, RFind(p, SEP) + 1, Len(p))

\* os.path.splitext(p), POSIX: <<root, ext>>; leading dots of the last
\* component do not start an extension
splitext(p) ==
    LET sepIndex == RFind(p, SEP)
        dotIndex == RFind(p, EXTSEP)
    IN IF /\ dotIndex > sepIndex
          /\ \E i \in (sepIndex + 1)..(dotIndex - 1) : p[i] # EXTSEP
       THEN <<SubSeq(p, 1, dotIndex - 1), SubSeq(p, dotIndex, Len(p))>>
       ELSE <<p, <<>> >>

----------------------------------------------------------------------------
(* TmpFilesystemBase *)

\* the k-th name yielded by the generator filenames_like(stem), k = 0, 1, ...
filenames_like(stem, k) ==
    IF k = 0 THEN stem
    ELSE LET root == splitext(stem)[1]
             suffix == splitext(stem)[2]
         IN root \o <<"_">> \o IntToStr(k) \o suffix

\* outcome of a method call: the instance and the disk after it, and what
\* the caller gets: a returned path, a returned class object, or a raise
Returns(f, d, p) ==
    [fs |-> f, disk |-> d, tag |-> "path", path |-> p, exc |-> "", unlinked |-> <<>>,
     inner |-> <<>>]
ReturnsNone(f, d, u) ==
    [fs |-> f, disk |-> d, tag |-> "none", path |-> <<>>, exc |-> "", unlinked |-> u,
     inner |-> <<>>]
ReturnsClass(f, d, c) ==
    [fs |-> f, disk |-> d, tag |-> "class", path |-> <<>>, exc |-> c, unlinked |-> <<>>,
     inner |-> <<>>]
Raises(f, d, e, u) ==
    [fs |-> f, disk |-> d, tag |-> "raise", path |-> <<>>, exc |-> e, unlinked |-> u,
     inner |-> <<>>]

\* the disk with `path` holding `content`
Write(d, path, content) ==
    [p \in DOMAIN d \cup {path} |-> IF p = path THEN content ELSE d[p]]

\* the disk without the paths in `gone`
Remove(d, gone) == [p \in DOMAIN d \ gone |-> d[p]]

IsFile(d, p) == p \in DOMAIN d /\ d[p] # DIR

\* variant: open(path, "wb") / os.makedirs(exist_ok=True), never EEXIST
FirstFree_NoExcl(d, stem) == 0

\* index of the candidate the probing loop claims: open(path, "xb") and
\* os.mkdir(path) fail with EEXIST on every name already taken, and
\* let_EEXIST_slide swallows exactly that, so the loop goes on to the next
FirstFree(d, stem) ==
    CHOOSE k \in 0..Cardinality(DOMAIN d) :
        /\ filenames_like(stem, k) \notin DOMAIN d
        /\ \A j \in 0..(k - 1) : filenames_like(stem, j) \in DOMAIN d

\* OS errors other than EEXIST that the environment may inject into a call
Faults == {"none", "mkdir", "open", "write"}

----------------------------------------------------------------------------
(* BasicTmpFilesystem *)

BasicTmpFilesystem(tmpdir) ==
    [kind |-> "basic", files_to_cleanup |-> <<>>, tmpdir |-> tmpdir]

note_file_created(f, path) ==
    [f EXCEPT !.files_to_cleanup = Append(@, path)]

BasicTmpFilesystem_copy_file(f, d, from_path) == Returns(f, d, from_path)

BasicTmpFilesystem_make_file(f, d, stem, bytes, fault) ==
    LET stem2 == join(f.tmpdir, stem)
        path == filenames_like(stem2, FirstFree(d, stem2))
    IN CASE fault = "open" -> Raises(f, d, "PermissionError", <<>>)
         [] fault = "write" -> Raises(f, Write(d, path, EMPTY), "OSError", <<>>)
         [] OTHER -> Returns(note_file_created(f, path), Write(d, path, bytes), path)

\* TmpFilesystemBase.cleanup with BasicTmpFilesystem.cleanup_one_file: the
\* loop stops at the first os.unlink that raises
RECURSIVE cleanup_files(_, _, _, _)
cleanup_files(f, d, i, unlinked) ==
    IF i > Len(f.files_to_cleanup) THEN ReturnsNone(f, d, unlinked)
    ELSE LET path == f.files_to_cleanup[i]
         IN CASE path \notin DOMAIN d ->
                     Raises(f, d, "FileNotFoundError", Append(unlinked, path))
              [] ~IsFile(d, path) ->
                     Raises(f, d, "IsADirectoryError", Append(unlinked, path))
              [] OTHER -> cleanup_files(f, Remove(d, {path}), i + 1,
                                        Append(unlinked, path))

BasicTmpFilesystem_cleanup(f, d) == cleanup_files(f, d, 1, <<>>)

----------------------------------------------------------------------------
(* TmpdirFilesystem *)

TmpdirFilesystem(tmpdir_base) ==
    [kind |-> "tmpdir", tmpdir_base |-> tmpdir_base, has_tmpdir |-> FALSE,
     tmpdir |-> <<>>]

\* variant: a plain property, computed at every access
cached_never(f) == FALSE

\* @cached_property: whether the instance holds a value of tmpdir
cached(f) == f.tmpdir # <<>>

\* the cached property tmpdir: <<>> while nothing is cached
TmpdirFilesystem_tmpdir(f, d, fault) ==
    IF cached(f) THEN Returns(f, d, f.tmpdir)
    ELSE LET stem == join(f.tmpdir_base, ANSIBLE_TMP)
             path == filenames_like(stem, FirstFree(d, stem))
         IN IF fault = "mkdir" THEN Raises(f, d, "PermissionError", <<>>)
            ELSE Returns([f EXCEPT !.has_tmpdir = TRUE, !.tmpdir = path],
                         Write(d, path, DIR), path)

\* open(path, "xb") in a directory that is gone fails with ENOENT
TmpdirFilesystem_make_file(f, d, stem, bytes, fault) ==
    LET t == TmpdirFilesystem_tmpdir(f, d, fault)
    IN IF t.tag = "raise" THEN t
       ELSE LET stem2 == join(t.path, stem)
                path == filenames_like(stem2, FirstFree(t.disk, stem2))
            IN CASE t.path \notin DOMAIN t.disk ->
                        Raises(t.fs, t.disk, "FileNotFoundError", <<>>)
                 [] fault = "open" -> Raises(t.fs, t.disk, "PermissionError", <<>>)
                 [] fault = "write" ->
                        Raises(t.fs, Write(t.disk, path, EMPTY), "OSError", <<>>)
                 [] OTHER -> Returns(t.fs, Write(t.disk, path, bytes), path)

\* variant: the copy is created without the source's bytes
slurp_nothing(d, from_path) == EMPTY

\* with open(from_path, "rb") as fd: slurped_bytes = fd.read()
slurp(d, from_path) == d[from_path]

\* open(from_path, "rb") fails before make_file is reached: ENOENT for an
\* absent source, EISDIR for a directory
TmpdirFilesystem_copy_file(f, d, from_path, fault) ==
    CASE from_path \notin DOMAIN d -> Raises(f, d, "FileNotFoundError", <<>>)
      [] ~IsFile(d, from_path) -> Raises(f, d, "IsADirectoryError", <<>>)
      [] OTHER -> TmpdirFilesystem_make_file(f, d, basename(from_path),
                                             slurp(d, from_path), fault)

\* variant: os.rmdir that leaves the files behind
rmdir_only(d, path) == Remove(d, {path})

\* shutil.rmtree(path): the directory and everything below it
rmtree(d, path) ==
    Remove(d, {p \in DOMAIN d : p = path \/ StartsWith(p, path \o <<SEP>>)})

TmpdirFilesystem_cleanup(f, d) ==
    IF f.has_tmpdir
    THEN IF f.tmpdir \in DOMAIN d
         THEN ReturnsNone(f, rmtree(d, f.tmpdir), <<f.tmpdir>>)
         ELSE Raises(f, d, "FileNotFoundError", <<f.tmpdir>>)
    ELSE ReturnsNone(f, d, <<>>)

----------------------------------------------------------------------------
(* MountedVolumeTmpFilesystem *)

\* variant: `if` for `while`, one trailing slash dropped
strip_one_slash(mountpoint) ==
    IF EndsWith(mountpoint, <<SEP>>)
    THEN SubSeq(mountpoint, 1, Len(mountpoint) - 1)
    ELSE mountpoint

\* while mountpoint.endswith("/"): mountpoint = mountpoint[:-1]
RECURSIVE strip_slashes(_)
strip_slashes(mountpoint) ==
    IF EndsWith(mountpoint, <<SEP>>)
    THEN strip_slashes(SubSeq(mountpoint, 1, Len(mountpoint) - 1))
    ELSE mountpoint

MountedVolumeTmpFilesystem(mountpoint, tmpdir_rel_path) ==
    [kind |-> "mounted", mountpoint |-> strip_slashes(mountpoint),
     tmp |-> TmpdirFilesystem(join(strip_slashes(mountpoint), tmpdir_rel_path))]

\* the value translate_path_inside hands back for path_outside
translate_path_inside(f, d, path_outside) ==
    IF ~StartsWith(path_outside, f.mountpoint)
    THEN ReturnsClass(f, d, "ValueError")
    ELSE Returns(f, d, SubSeq(path_outside, Len(f.mountpoint) + 1, Len(path_outside)))

\* translate_path_inside(self.tmp.<call>): an inner raise propagates
Translated(f, inner) ==
    LET f2 == [f EXCEPT !.tmp = inner.fs]
    IN IF inner.tag = "raise" THEN [inner EXCEPT !.fs = f2]
       ELSE [translate_path_inside(f2, inner.disk, inner.path)
                EXCEPT !.inner = inner.path]

MountedVolumeTmpFilesystem_copy_file(f, d, path_outside, fault) ==
    Translated(f, TmpdirFilesystem_copy_file(f.tmp, d, path_outside, fault))

MountedVolumeTmpFilesystem_make_file(f, d, stem, bytes, fault) ==
    Translated(f, TmpdirFilesystem_make_file(f.tmp, d, stem, bytes, fault))

MountedVolumeTmpFilesystem_cleanup(f, d) ==
    LET inner == TmpdirFilesystem_cleanup(f.tmp, d)
    IN [inner EXCEPT !.fs = [f EXCEPT !.tmp = inner.fs]]

----------------------------------------------------------------------------
(* Method dispatch on the instance's class *)

copy_file(f, d, from_path, fault) ==
    CASE f.kind = "basic" -> BasicTmpFilesystem_copy_file(f, d, from_path)
      [] f.kind = "tmpdir" -> TmpdirFilesystem_copy_file(f, d, from_path, fault)
      [] f.kind = "mounted" ->
             MountedVolumeTmpFilesystem_copy_file(f, d, from_path, fault)

make_file(f, d, stem, bytes, fault) ==
    CASE f.kind = "basic" -> BasicTmpFilesystem_make_file(f, d, stem, bytes, fault)
      [] f.kind = "tmpdir" -> TmpdirFilesystem_make_file(f, d, stem, bytes, fault)
      [] f.kind = "mounted" ->
             MountedVolumeTmpFilesystem_make_file(f, d, stem, bytes, fault)

cleanup(f, d) ==
    CASE f.kind = "basic" -> BasicTmpFilesystem_cleanup(f, d)
      [] f.kind = "tmpdir" -> TmpdirFilesystem_cleanup(f, d)
      [] f.kind = "mounted" -> MountedVolumeTmpFilesystem_cleanup(f, d)

\* obj.note_file_created(path) called from outside: only
\* BasicTmpFilesystem.__init__ runs TmpFilesystemBase.__init__, the other two
\* classes have no files_to_cleanup attribute to append to
TmpFilesystemBase_note_file_created(f, d, path) ==
    IF f.kind = "basic" THEN ReturnsNone(note_file_created(f, path), d, <<>>)
    ELSE Raises(f, d, "AttributeError", <<>>)

\* obj.cleanup_one_file(path) called from outside: os.unlink for
\* BasicTmpFilesystem, the base class's NotImplementedError for the others;
\* files_to_cleanup is left as it was
cleanup_one_file(f, d, path) ==
    CASE f.kind # "basic" -> Raises(f, d, "NotImplementedError", <<>>)
      [] path \notin DOMAIN d -> Raises(f, d, "FileNotFoundError", <<path>>)
      [] ~IsFile(d, path) -> Raises(f, d, "IsADirectoryError", <<path>>)
      [] OTHER -> ReturnsNone(f, Remove(d, {path}), <<path>>)

\* obj.tmpdir read from outside: a plain attribute of BasicTmpFilesystem, the
\* directory-creating cached property of TmpdirFilesystem, absent from
\* MountedVolumeTmpFilesystem
tmpdir(f, d, fault) ==
    CASE f.kind = "basic" -> Returns(f, d, f.tmpdir)
      [] f.kind = "tmpdir" -> TmpdirFilesystem_tmpdir(f, d, fault)
      [] f.kind = "mounted" -> Raises(f, d, "AttributeError", <<>>)

----------------------------------------------------------------------------
(* Values of the objects PythonFrameworkActionBase.run() works with *)

NoText == [syntax_ok |-> TRUE, body |-> <<>>]
NoScript == [constructed |-> FALSE, python_code_string |-> NoText]
NoRunner == [built |-> FALSE, check_mode |-> FALSE, inhibit_cleanup |-> FALSE]
NoException == [class |-> "", msg |-> "", code |-> 0]
NoResult == [failed |-> FALSE, msg |-> "", traceback |-> <<>>]
NoProgram ==
    [ansiballz |-> <<>>, imports |-> "", declarations |-> NoText, initialize |-> "",
     run |-> <<>>]
NoChild ==
    [state |-> "none", section |-> "", stdout |-> <<>>, result |-> NoResult,
     raised |-> NoException, returncode |-> 0]

\* nothing of run() exists: the filesystem instance is used on its own
Idle ==
    /\ text = NoText
    /\ script = NoScript
    /\ runner = NoRunner
    /\ pc = "idle"
    /\ error = ""
    /\ program = NoProgram
    /\ child = NoChild
    /\ exit_code = 0
    /\ events = <<>>
    /\ sys_path = <<>>

----------------------------------------------------------------------------
(* Calls on one filesystem instance, in any order *)

Mountpoints == {<<"/","m">>, <<"/","m","/","/">>, <<"/">>}
RelPaths == {<<"t">>, <<"/","t">>}
Stems == {REPORT_TXT, NOTES}

\* constructor calls: the arguments, and the instance they build
Constructions ==
    {[class |-> "BasicTmpFilesystem", mountpoint |-> <<>>, dir |-> CURDIR],
     [class |-> "TmpdirFilesystem", mountpoint |-> <<>>, dir |-> TMPBASE]}
    \cup {[class |-> "MountedVolumeTmpFilesystem", mountpoint |-> m, dir |-> r] :
            m \in Mountpoints, r \in RelPaths}

Construct(a) ==
    CASE a.class = "BasicTmpFilesystem" -> BasicTmpFilesystem(a.dir)
      [] a.class = "TmpdirFilesystem" -> TmpdirFilesystem(a.dir)
      [] a.class = "MountedVolumeTmpFilesystem" ->
             MountedVolumeTmpFilesystem(a.mountpoint, a.dir)

\* names another party may have taken before the instance probes them
Taken(f) ==
    LET stem == CASE f.kind = "basic" -> join(f.tmpdir, REPORT_TXT)
                  [] f.kind = "tmpdir" -> join(f.tmpdir_base, ANSIBLE_TMP)
                  [] f.kind = "mounted" -> join(f.tmp.tmpdir_base, ANSIBLE_TMP)
        content == IF f.kind = "basic" THEN OLD ELSE DIR
    IN [p \in {filenames_like(stem, 0), filenames_like(stem, 1)} |-> content]

Restrict(g, S) == [p \in S |-> g[p]]

InitFs ==
    /\ args \in Constructions
    /\ fs = Construct(args)
    /\ \E pre \in SUBSET DOMAIN Taken(fs) :
           disk = Write(Restrict(Taken(fs), pre), PAYLOAD_ZIP, "zip")
    /\ disk0 = disk
    /\ calls = <<>>
    /\ Idle
    /\ procs = <<>>

\* the record of a call made with the disk holding d, that ended as r
Called(d, op, arg, bytes, r) ==
    [op |-> op, arg |-> arg, bytes |-> bytes, tag |-> r.tag, path |-> r.path,
     exc |-> r.exc, unlinked |-> r.unlinked, inner |-> r.inner,
     created |-> DOMAIN r.disk \ DOMAIN d]

\* how many calls a behaviour makes on the instance
CallBound(f) == IF f.kind = "mounted" THEN MaxMountedCalls ELSE MaxCalls

\* the behaviour has calls left to make
MayCall == Len(calls) < CallBound(fs)

Apply(op, arg, bytes, r) ==
    /\ fs' = r.fs
    /\ disk' = r.disk
    /\ calls' = Append(calls, Called(disk, op, arg, bytes, r))
    /\ UNCHANGED <<disk0, args>>
    /\ UNCHANGED runvars
    /\ UNCHANGED procs

\* the bytes handed to make_file differ from call to call, so that a file
\* written by two calls shows the later one
CallBytes == <<"b1", "b2", "b3", "b4", "b5", "b6">>

MakeFile ==
    /\ MayCall
    /\ \E stem \in Stems, bytes \in {CallBytes[Len(calls) + 1]}, fault \in Faults :
           \E r \in {make_file(fs, disk, stem, bytes, fault)} :
               Apply("make_file", stem, bytes, r)

\* sources of copy_file: the payload, and a path that is a directory once a
\* private directory was made under TMPBASE and absent before
CopySources == {PAYLOAD_ZIP, join(TMPBASE, ANSIBLE_TMP)}

CopyFile ==
    /\ MayCall
    /\ \E from_path \in CopySources, fault \in Faults :
           \E r \in {copy_file(fs, disk, from_path, fault)} :
               Apply("copy_file", from_path, EMPTY, r)

Cleanup ==
    /\ MayCall
    /\ \E r \in {cleanup(fs, disk)} : Apply("cleanup", <<>>, EMPTY, r)

\* a direct call of MountedVolumeTmpFilesystem.translate_path_inside
TranslateArgs(f) ==
    {join(f.tmp.tmpdir_base, REPORT_TXT), join(f.mountpoint, NOTES), <<"/","x">>}

TranslatePathInside ==
    /\ MayCall
    /\ fs.kind = "mounted"
    /\ \E p \in TranslateArgs(fs) :
           \E r \in {translate_path_inside(fs, disk, p)} :
               Apply("translate_path_inside", p, EMPTY, r)

\* direct calls of the helper methods the classes leave public
NoteArgs == {PAYLOAD_ZIP}

NoteFileCreated ==
    /\ MayCall
    /\ \E p \in NoteArgs :
           \E r \in {TmpFilesystemBase_note_file_created(fs, disk, p)} :
               Apply("note_file_created", p, EMPTY, r)

CleanupOneFileArgs == {join(CURDIR, REPORT_TXT)}

CleanupOneFile ==
    /\ MayCall
    /\ \E p \in CleanupOneFileArgs :
           \E r \in {cleanup_one_file(fs, disk, p)} :
               Apply("cleanup_one_file", p, EMPTY, r)

ReadTmpdir ==
    /\ MayCall
    /\ \E fault \in {"none", "mkdir"} :
           \E r \in {tmpdir(fs, disk, fault)} :
               Apply("tmpdir", <<>>, EMPTY, r)

Next ==
    \/ MakeFile
    \/ CopyFile
    \/ Cleanup
    \/ TranslatePathInside
    \/ NoteFileCreated
    \/ CleanupOneFile
    \/ ReadTmpdir

Spec == InitFs /\ [][Next]_vars

----------------------------------------------------------------------------
(* Properties of the filesystem backends *)

Range(q) == {q[i] : i \in 1..Len(q)}

\* no call was made to remove files: neither cleanup() nor cleanup_one_file()
NoCleanupCalled ==
    \A i \in 1..Len(calls) : calls[i].op \notin {"cleanup", "cleanup_one_file"}

\* the make_file calls that returned a path
MadeFiles == {i \in 1..Len(calls) : calls[i].op = "make_file" /\ calls[i].tag = "path"}

\* the earlier make_file calls with the name hint of call j
SameHintBefore(j) ==
    {i \in 1..(j - 1) : calls[i].op = "make_file" /\ calls[i].arg = calls[j].arg}

\* the directory the instance creates its files in
TargetDir == fs.tmpdir

\* stem, stem_1, stem_2, ... written out for the two name hints
ExpectedName(stem, k) ==
    LET root == IF stem = REPORT_TXT THEN <<"r","e","p","o","r","t">> ELSE stem
        ext == IF stem = REPORT_TXT THEN <<".","t","x","t">> ELSE <<>>
        counter == <<"1","2","3","4","5","6","7","8","9">>
    IN IF k = 0 THEN stem ELSE root \o <<"_", counter[k]>> \o ext

StartedEmpty ==
    \A p \in DOMAIN disk0 : ~StartsWith(p, TargetDir \o <<SEP>>)

\* C1: make_file calls with the same name hint on one Same-namespace or
\* Shared-directory instance, with no removal of files asked for in between,
\* never overwrite a file (one made by an earlier call, or one that was
\* there before), return pairwise distinct paths, and,
\* from an empty target directory with every earlier call having returned,
\* the k-th call returns the k-th name of stem, stem_1, stem_2, ...
C1_MakeFileUnique ==
    (fs.kind \in {"basic", "tmpdir"} /\ NoCleanupCalled) =>
        /\ \A p \in DOMAIN disk0 : p \in DOMAIN disk /\ disk[p] = disk0[p]
        /\ \A j \in MadeFiles :
            /\ calls[j].path \in DOMAIN disk
            /\ disk[calls[j].path] = calls[j].bytes
            /\ \A i \in SameHintBefore(j) \cap MadeFiles :
                   calls[i].path # calls[j].path
            /\ (StartedEmpty /\ SameHintBefore(j) \subseteq MadeFiles) =>
                   calls[j].path =
                       TargetDir \o <<SEP>>
                       \o ExpectedName(calls[j].arg, Cardinality(SameHintBefore(j)))

\* three calls with the hint report.txt from an empty current directory; the
\* third returned ./report_2.txt
C1_Witness ==
    /\ fs.kind = "basic"
    /\ disk0 = (PAYLOAD_ZIP :> "zip")
    /\ Len(calls) = 3
    /\ \A i \in 1..3 : i \in MadeFiles /\ calls[i].arg = REPORT_TXT
    /\ calls[3].path = <<".","/","r","e","p","o","r","t","_","2",".","t","x","t">>

\* C2: a cleanup() called right after a cleanup() that succeeded does not
\* raise and does not try to delete what the first one deleted
C2_CleanupTwice ==
    \A i \in 1..(Len(calls) - 1) :
        (calls[i].op = "cleanup" /\ calls[i].tag = "none"
            /\ calls[i + 1].op = "cleanup") =>
            /\ calls[i + 1].tag # "raise"
            /\ Range(calls[i + 1].unlinked) \cap Range(calls[i].unlinked) = {}

\* the argument without its trailing slashes
Normalized(mountpoint) ==
    LET n == CHOOSE n \in 0..Len(mountpoint) :
                 /\ \A i \in (n + 1)..Len(mountpoint) : mountpoint[i] = SEP
                 /\ n > 0 => mountpoint[n] # SEP
    IN SubSeq(mountpoint, 1, n)

\* the copy_file / make_file calls in which the inner instance returned a path
InnerReturned ==
    {i \in 1..Len(calls) :
        calls[i].op \in {"make_file", "copy_file"} /\ calls[i].inner # <<>>}

\* C9: on a Mounted-volume instance whose inner instance lies under the
\* mount point, copy_file and make_file return the inner instance's path p
\* without the mount point given at construction (trailing slashes dropped),
\* and that prefix put back in front of the result is p
C9_TranslateRoundTrip ==
    fs.kind = "mounted" =>
        \A i \in InnerReturned :
            StartsWith(calls[i].inner, Normalized(args.mountpoint)) =>
                /\ calls[i].tag = "path"
                /\ Normalized(args.mountpoint) \o calls[i].path = calls[i].inner

\* make_file on a volume mounted at "/m//" returned /t/.ansible_tmp/report.txt
\* for the inner path /m/t/.ansible_tmp/report.txt
C9_Witness ==
    /\ fs.kind = "mounted"
    /\ args.mountpoint = <<"/","m","/","/">>
    /\ \E i \in InnerReturned :
        /\ calls[i].op = "make_file"
        /\ calls[i].tag = "path"
        /\ calls[i].inner = <<"/","m">> \o calls[i].path
        /\ calls[i].path = <<"/","t","/">> \o ANSIBLE_TMP \o <<"/">> \o REPORT_TXT

\* the path handed to translate_path_inside in call i
TranslatedPath(i) ==
    IF calls[i].op = "translate_path_inside" THEN calls[i].arg ELSE calls[i].inner

\* C10: translating a path that does not start with the mount point fails:
\* the call raises and returns nothing, directly or through copy_file / make_file
C10_TranslateOutsideFails ==
    fs.kind = "mounted" =>
        \A i \in InnerReturned
                \cup {i \in 1..Len(calls) : calls[i].op = "translate_path_inside"} :
            ~StartsWith(TranslatedPath(i), fs.mountpoint) => calls[i].tag = "raise"

----------------------------------------------------------------------------
(* ParserBase, PostconditionParser *)

POSTCONDITIONBASE ==
    <<"P","o","s","t","c","o","n","d","i","t","i","o","n","B","a","s","e">>

\* `sub in s` on strings
Contains(s, sub) ==
    \E i \in 1..(Len(s) - Len(sub) + 1) : SubSeq(s, i, i + Len(sub) - 1) = sub

\* syntax-tree nodes: a base written as a plain name has an `id`; a base
\* written as an attribute reference (abc.ABC) has none
Name(id) == [node |-> "Name", id |-> id]
Attribute == [node |-> "Attribute", id |-> <<>>]
ClassDef(name, bases, body) == [name |-> name, bases |-> bases, body |-> body]

\* variant: depth-first, a node's children right behind it
RECURSIVE walk_depth_first(_)
walk_depth_first(todo) ==
    IF todo = <<>> THEN <<>>
    ELSE <<Head(todo)>> \o walk_depth_first(Head(todo).body \o Tail(todo))

\* ast.walk: breadth-first, the children of a node queued behind all that
\* was queued before (only the ClassDef nodes are kept)
RECURSIVE walk(_)
walk(todo) ==
    IF todo = <<>> THEN <<>>
    ELSE <<Head(todo)>> \o walk(Tail(todo) \o Head(todo).body)

Found(node) == [tag |-> "node", name |-> node.name, exc |-> ""]
FoundNone == [tag |-> "None", name |-> "", exc |-> ""]
FoundRaises(e) == [tag |-> "raise", name |-> "", exc |-> e]

\* the loops of class_declaration from node i, base j on
RECURSIVE find_class(_, _, _)
find_class(nodes, i, j) ==
    IF i > Len(nodes) THEN FoundNone
    ELSE IF j > Len(nodes[i].bases) THEN find_class(nodes, i + 1, 1)
    ELSE LET superclass == nodes[i].bases[j]
         IN IF superclass.node # "Name" THEN FoundRaises("AttributeError")
            ELSE IF Contains(superclass.id, POSTCONDITIONBASE) THEN Found(nodes[i])
            ELSE find_class(nodes, i, j + 1)

\* ParserBase.ast (ast.parse) and PostconditionParser.class_declaration
class_declaration(python_code_string) ==
    IF ~python_code_string.syntax_ok THEN FoundRaises("SyntaxError")
    ELSE find_class(walk(python_code_string.body), 1, 1)

Constructed(python_code_string) ==
    [tag |-> "object", exc |-> "",
     script |-> [constructed |-> TRUE, python_code_string |-> python_code_string]]

ConstructionRaises(e) == [tag |-> "raise", exc |-> e, script |-> NoScript]

\* PostconditionParser.__init__
PostconditionParser(python_code_string) ==
    LET found == class_declaration(python_code_string)
    IN CASE found.tag = "raise" -> ConstructionRaises(found.exc)
         [] found.tag = "None" -> ConstructionRaises("ValueError")
         [] OTHER -> Constructed(python_code_string)

python_fragment_imports(s) ==
    "\nfrom ansible_collections.epfl_si.actions.plugins.module_utils import postconditions\n\n"

python_fragment_declarations(s) == s.python_code_string

python_fragment_initialize(s) == ""

python_expression_run_and_return_ansible_result(s, check_mode) ==
    <<"postconditions.run_postcondition(",
      class_declaration(s.python_code_string).name,
      "(), check_mode=",
      IF check_mode THEN "True" ELSE "False",
      ")">>

----------------------------------------------------------------------------
(* ForkedRunnerBase: the composed program *)

\* [p for p in sys.path if "ansible" in p and p.endswith(".zip")]
RECURSIVE ansiballz_payload_zip_paths(_)
ansiballz_payload_zip_paths(entries) ==
    IF entries = <<>> THEN <<>>
    ELSE LET p == Head(entries)
             rest == ansiballz_payload_zip_paths(Tail(entries))
         IN IF Contains(p, <<"a","n","s","i","b","l","e">>)
                 /\ EndsWith(p, <<".","z","i","p">>)
            THEN <<p>> \o rest
            ELSE rest

\* variant: fragment = statement + fragment, the last payload first
python_fragment_reversed(copied) ==
    <<[stmt |-> "import sys", tag |-> "", path |-> <<>>]>>
    \o [i \in 1..Len(copied) |->
           [stmt |-> "sys.path.insert(0, '''%s''')",
            tag |-> copied[Len(copied) + 1 - i].tag,
            path |-> copied[Len(copied) + 1 - i].path]]

\* "import sys" and one sys.path.insert(0, '''%s''') per copied payload
python_fragment_set_ansiballz_sys_path(copied) ==
    <<[stmt |-> "import sys", tag |-> "", path |-> <<>>]>>
    \o [i \in 1..Len(copied) |->
           [stmt |-> "sys.path.insert(0, '''%s''')", tag |-> copied[i].tag,
            path |-> copied[i].path]]

python_script_multiline_string(s, check_mode, copied) ==
    [ansiballz |-> python_fragment_set_ansiballz_sys_path(copied),
     imports |-> python_fragment_imports(s),
     declarations |-> python_fragment_declarations(s),
     initialize |-> python_fragment_initialize(s),
     run |-> python_expression_run_and_return_ansible_result(s, check_mode)]

\* exception classes a fragment may raise: ExceptionClasses derive from
\* Exception, ExitingClasses from BaseException only
ExceptionClasses == {"RuntimeError", "ImportError", "NameError"}
ExitingClasses == {"SystemExit"}

\* except Exception as e
caught(e) == e.class \in ExceptionClasses

\* traceback.format_exc()
format_exc(e) == <<"Traceback (most recent call last):", e.class, e.msg>>

\* dict(failed=True, msg=str(e), traceback=tb)
failure_result(e) == [failed |-> TRUE, msg |-> e.msg, traceback |-> format_exc(e)]

\* json.dumps(result): the keys the dict holds, in order, with JSON values
json_dumps(result) ==
    << <<"failed", <<IF result.failed THEN "true" ELSE "false">> >>,
       <<"msg", <<"\"", result.msg, "\"">> >> >>
    \o (IF result.traceback = <<>> THEN <<>>
        ELSE << <<"traceback", <<"\"">> \o result.traceback \o <<"\"">> >> >>)

\* the interpreter's exit status for an exception nothing caught
uncaught_status(e) == IF e.class \in ExitingClasses THEN e.code ELSE 1

Terminated(c, status) == [c EXCEPT !.state = "terminated", !.returncode = status]

----------------------------------------------------------------------------
(* PythonFrameworkActionBase.run, ForkedRunnerBase.run_and_exit *)

POSTCONDITION == ClassDef("Postcondition", <<Name(POSTCONDITIONBASE)>>, <<>>)
CHECK == ClassDef("Check", <<Name(<<"M","y">> \o POSTCONDITIONBASE)>>, <<>>)
HELPER == ClassDef("Helper", <<Name(<<"o","b","j","e","c","t">>)>>, <<>>)
ABSTRACT == ClassDef("Abstract", <<Attribute>>, <<>>)
PLAIN == ClassDef("Plain", <<>>, <<>>)

Bodies ==
    {<<>>, <<POSTCONDITION>>, <<CHECK>>, <<HELPER>>, <<ABSTRACT>>, <<PLAIN>>,
     <<HELPER, POSTCONDITION>>, <<ABSTRACT, POSTCONDITION>>,
     <<POSTCONDITION, ABSTRACT>>, <<CHECK, POSTCONDITION>>,
     <<[HELPER EXCEPT !.body = <<POSTCONDITION>>], CHECK>>}

\* the user scripts: one that ast.parse rejects, and the trees of the others
Texts ==
    {[syntax_ok |-> FALSE, body |-> <<>>]}
    \cup {[syntax_ok |-> TRUE, body |-> b] : b \in Bodies}

USR_LIB == <<"/","u","s","r","/","l","i","b">>
PAYLOAD2_ZIP == <<"/","r","/","a","n","s","i","b","l","e","_","p",".","z","i","p">>
SCRIPT_PY == <<"s","c","r","i","p","t",".","p","y">>

\* sys.path of the calling process
SysPaths == {<<USR_LIB>>, <<PAYLOAD_ZIP, USR_LIB>>, <<PAYLOAD2_ZIP, USR_LIB, PAYLOAD_ZIP>>}

\* the filesystems a runner is given: the default, or one set right after
\* construction
RunnerFilesystems ==
    {[class |-> "BasicTmpFilesystem", mountpoint |-> <<>>, dir |-> CURDIR],
     [class |-> "TmpdirFilesystem", mountpoint |-> <<>>, dir |-> TMPBASE],
     [class |-> "MountedVolumeTmpFilesystem", mountpoint |-> <<"/","m","/","/">>,
      dir |-> <<"t">>]}

InitRun ==
    /\ text \in Texts
    /\ script = NoScript
    /\ runner = NoRunner
    /\ pc = "main"
    /\ error = ""
    /\ program = NoProgram
    /\ child = NoChild
    /\ exit_code = 0
    /\ events = <<>>
    /\ sys_path \in SysPaths
    /\ procs = <<>>
    /\ args = [class |-> "BasicTmpFilesystem", mountpoint |-> <<>>, dir |-> CURDIR]
    /\ fs = Construct(args)
    /\ \E pre \in SUBSET {join(CURDIR, SCRIPT_PY)} :
           disk = Write(Write([p \in pre |-> OLD], PAYLOAD_ZIP, "zip"),
                        PAYLOAD2_ZIP, "zip2")
    /\ disk0 = disk
    /\ calls = <<>>

\* framework_script: PostconditionParser(self.module.params['postcondition_class'])
FrameworkScript ==
    /\ pc = "main"
    /\ \E r \in {PostconditionParser(text)} :
          /\ script' = r.script
          /\ error' = r.exc
          /\ pc' = IF r.tag = "object" THEN "parsed" ELSE "raised"
    /\ UNCHANGED <<fsvars, text, runner, program, child, exit_code, events>>
    /\ UNCHANGED <<sys_path, procs>>

\* build_runner -> ForkedRunnerBase.__init__, and the filesystem set on it
BuildRunner ==
    /\ pc = "parsed"
    /\ \E check_mode \in BOOLEAN, a \in RunnerFilesystems :
        /\ runner' = [built |-> TRUE, check_mode |-> check_mode,
                      inhibit_cleanup |-> FALSE]
        /\ args' = a
        /\ fs' = Construct(a)
    /\ pc' = "armed"
    /\ UNCHANGED <<disk, disk0, calls, text, script, error, program, child,
                   exit_code, events>>
    /\ UNCHANGED <<sys_path, procs>>

\* if self.module._keep_remote_files: runner.inhibit_cleanup = True
KeepRemoteFiles ==
    /\ pc = "armed"
    /\ ~runner.inhibit_cleanup
    /\ runner' = [runner EXCEPT !.inhibit_cleanup = TRUE]
    /\ UNCHANGED <<fsvars, text, script, pc, error, program, child, exit_code,
                   events>>
    /\ UNCHANGED <<sys_path, procs>>

\* copied_ansiballz_payloads: fs.copy_file on each payload in turn, stopping
\* at the first that raises; `at` is the call that meets the OS error `fault`
Copied(acc, from_path, r) ==
    [fs |-> r.fs, disk |-> r.disk,
     copied |-> IF r.tag = "raise" THEN acc.copied ELSE Append(acc.copied, r),
     history |-> Append(acc.history, Called(acc.disk, "copy_file", from_path, EMPTY, r)),
     exc |-> IF r.tag = "raise" THEN r.exc ELSE ""]

RECURSIVE copy_payloads(_, _, _, _)
copy_payloads(acc, paths, fault, at) ==
    IF paths = <<>> \/ acc.exc # "" THEN acc
    ELSE CHOOSE done \in
             {copy_payloads(next, Tail(paths), fault, at) :
                 next \in {Copied(acc, Head(paths), r) :
                     r \in {copy_file(acc.fs, acc.disk, Head(paths),
                                      IF Len(acc.history) + 1 = at THEN fault
                                      ELSE "none")}}} : TRUE

\* python_subprocess_args of a concrete runner: composes the program (which
\* copies the payloads), places it with make_file and names it in the argv
PythonSubprocessArgs ==
    /\ pc = "armed"
    /\ \E fault \in Faults :
       \E at \in 1..(Len(ansiballz_payload_zip_paths(sys_path)) + 1) :
        \E c \in {copy_payloads([fs |-> fs, disk |-> disk, copied |-> <<>>,
                                  history |-> <<>>, exc |-> ""],
                                 ansiballz_payload_zip_paths(sys_path), fault, at)} :
        \E m \in {make_file(c.fs, c.disk, SCRIPT_PY, "program",
                             IF at = Len(c.history) + 1 THEN fault ELSE "none")} :
           IF c.exc # ""
           THEN /\ fs' = c.fs
                /\ disk' = c.disk
                /\ calls' = calls \o c.history
                /\ error' = c.exc
                /\ pc' = "raised"
                /\ UNCHANGED program
           ELSE /\ fs' = m.fs
                /\ disk' = m.disk
                /\ calls' = calls \o c.history
                              \o <<Called(c.disk, "make_file", SCRIPT_PY, "program", m)>>
                /\ program' = python_script_multiline_string(
                                  script, runner.check_mode, c.copied)
                /\ error' = m.exc
                /\ pc' = IF m.tag = "raise" THEN "raised" ELSE "ready"
    /\ UNCHANGED <<disk0, args, text, script, runner, child, exit_code, events>>
    /\ UNCHANGED <<sys_path, procs>>

\* subprocess.run(...) raises: the interpreter cannot be started
LaunchFails ==
    /\ pc = "ready"
    /\ error' = "OSError"
    /\ pc' = "raised"
    /\ events' = Append(events, "launch failed")
    /\ UNCHANGED <<fsvars, text, script, runner, program, child, exit_code>>
    /\ UNCHANGED <<sys_path, procs>>

\* subprocess.run(...) starts the interpreter on the composed program
Launch ==
    /\ pc = "ready"
    /\ pc' = "waiting"
    /\ child' = [NoChild EXCEPT !.state = "running", !.section = "ansiballz"]
    /\ events' = Append(events, "launch")
    /\ UNCHANGED <<fsvars, text, script, runner, error, program, exit_code>>
    /\ UNCHANGED <<sys_path, procs>>

Running(section) ==
    /\ pc = "waiting"
    /\ child.state = "running"
    /\ child.section = section

ChildStep(c) ==
    /\ child' = c
    /\ events' = IF c.state = "terminated" THEN Append(events, "terminated")
                 ELSE events
    /\ UNCHANGED <<fsvars, text, script, runner, pc, error, program, exit_code>>
    /\ UNCHANGED <<sys_path, procs>>

RuntimeError == [class |-> "RuntimeError", msg |-> "boom", code |-> 0]
ImportError == [class |-> "ImportError", msg |-> "No module named postconditions",
                code |-> 0]
NameError == [class |-> "NameError", msg |-> "name is not defined", code |-> 0]
SystemExit(code) == [class |-> "SystemExit", msg |-> "", code |-> code]

\* import json, traceback, sys; the sys.path.insert statements
ChildAnsiballz ==
    /\ Running("ansiballz")
    /\ ChildStep([child EXCEPT !.section = "imports"])

\* %(imports)s
ChildImports ==
    /\ Running("imports")
    /\ \/ ChildStep([child EXCEPT !.section = "declarations"])
       \/ ChildStep(Terminated(child, uncaught_status(ImportError)))

\* %(declarations)s: the user script executes its class statements
ChildDeclarations ==
    /\ Running("declarations")
    /\ \/ ChildStep([child EXCEPT !.section = "initialize"])
       \/ \E e \in {NameError, SystemExit(3)} :
              ChildStep(Terminated(child, uncaught_status(e)))

\* %(initialize)s: the empty string
ChildInitialize ==
    /\ Running("initialize")
    /\ ChildStep([child EXCEPT !.section = "run"])

\* what run_postcondition(...) hands back when it returns
Results ==
    {[failed |-> FALSE, msg |-> "", traceback |-> <<>>],
     [failed |-> TRUE, msg |-> "postcondition does not hold", traceback |-> <<>>]}

\* try: result = %(run)s / except Exception as e: ...
ChildRun ==
    /\ Running("run")
    /\ \/ \E r \in Results :
              ChildStep([child EXCEPT !.result = r, !.section = "print"])
       \/ \E e \in {RuntimeError, SystemExit(0), SystemExit(3)} :
              IF caught(e)
              THEN ChildStep([child EXCEPT !.raised = e,
                                           !.result = failure_result(e),
                                           !.section = "print"])
              ELSE ChildStep(Terminated([child EXCEPT !.raised = e],
                                        uncaught_status(e)))
       \/ ChildStep(Terminated(child, -9))

\* print(json.dumps(result)), and the end of the program
ChildPrint ==
    /\ Running("print")
    /\ ChildStep(Terminated(
           [child EXCEPT !.stdout = Append(@, json_dumps(child.result)),
                         !.section = "end"], 0))

\* variant: cleanup whatever the flag says
should_cleanup_always(r) == TRUE

\* if not self.inhibit_cleanup
should_cleanup(r) == ~r.inhibit_cleanup

\* variant: sys.exit(0)
exit_status_zero(returncode) == 0

\* sys.exit(p.returncode): the code SystemExit carries
exit_status(returncode) == returncode

\* variant: subprocess.Popen, which returns without waiting
popen_returns(c) == TRUE

\* subprocess.run returns once the subprocess has terminated
run_returns(c) == c.state = "terminated"

\* subprocess.run has returned; if not self.inhibit_cleanup: self.fs.cleanup()
AfterWait ==
    /\ pc = "waiting"
    /\ run_returns(child)
    /\ IF should_cleanup(runner)
       THEN \E r \in {cleanup(fs, disk)} :
               /\ fs' = r.fs
               /\ disk' = r.disk
               /\ calls' = Append(calls, Called(disk, "cleanup", <<>>, EMPTY, r))
               /\ events' = Append(events, "cleanup")
               /\ error' = r.exc
               /\ pc' = IF r.tag = "raise" THEN "raised" ELSE "cleaned"
       ELSE /\ pc' = "cleaned"
            /\ UNCHANGED <<fs, disk, calls, events, error>>
    /\ UNCHANGED <<disk0, args, text, script, runner, program, child, exit_code>>
    /\ UNCHANGED <<sys_path, procs>>

\* sys.exit(p.returncode)
SysExit ==
    /\ pc = "cleaned"
    /\ exit_code' = exit_status(child.returncode)
    /\ pc' = "exited"
    /\ events' = Append(events, "exit")
    /\ UNCHANGED <<fsvars, text, script, runner, error, program, child>>
    /\ UNCHANGED <<sys_path, procs>>

NextRun ==
    \/ FrameworkScript
    \/ BuildRunner
    \/ KeepRemoteFiles
    \/ PythonSubprocessArgs
    \/ LaunchFails
    \/ Launch
    \/ ChildAnsiballz
    \/ ChildImports
    \/ ChildDeclarations
    \/ ChildInitialize
    \/ ChildRun
    \/ ChildPrint
    \/ AfterWait
    \/ SysExit

SpecRun == InitRun /\ [][NextRun]_vars

----------------------------------------------------------------------------
(* Properties of the composed program, the runner and the parser *)

\* C3: a launched run that has ended has written exactly one outcome
\* document to standard output, wherever the fragment raised
C3_OneDocument ==
    child.state = "terminated" => Len(child.stdout) = 1

\* the one document the handler of the result expression produces for e
FailureDocument(e) ==
    << <<"failed", <<"true">> >>,
       <<"msg", <<"\"", e.msg, "\"">> >>,
       <<"traceback",
         <<"\"", "Traceback (most recent call last):", e.class, e.msg, "\"">> >> >>

\* C4: whatever the result expression raises (an Exception, or a SystemExit
\* from sys.exit), the program ends with exit code 0 after one document with
\* failed = true, msg = the exception's message and a traceback
C4_AnyRaiseReported ==
    (child.state = "terminated" /\ child.raised # NoException) =>
        /\ child.stdout = <<FailureDocument(child.raised)>>
        /\ child.returncode = 0

\* what the calls on the bound filesystem created on disk during the run
Assets == UNION {calls[i].created : i \in 1..Len(calls)}

\* C5: once run_and_exit has exited, the assets created during the run are
\* all on disk if cleanup is inhibited and all gone if it is not
C5_CleanupInhibition ==
    pc = "exited" =>
        IF runner.inhibit_cleanup
        THEN Assets \subseteq DOMAIN disk
        ELSE Assets \cap DOMAIN disk = {}

\* a run with the flag set after construction, a payload copied into the
\* private directory and the program placed there, all still on disk
C5_Witness ==
    /\ pc = "exited"
    /\ runner.inhibit_cleanup
    /\ fs.kind = "tmpdir"
    /\ Cardinality(Assets) = 3
    /\ Assets \subseteq DOMAIN disk

\* C6: once the subprocess has terminated and run_and_exit is over, the
\* calling process has exited with the subprocess's return code
C6_ExitCode ==
    (child.state = "terminated" /\ pc \notin {"waiting", "cleaned"}) =>
        /\ pc = "exited"
        /\ exit_code = child.returncode

\* the subprocess ended with status 3, cleanup ran, the caller exited with 3
C6_Witness ==
    /\ pc = "exited"
    /\ child.returncode = 3
    /\ exit_code = 3
    /\ "cleanup" \in Range(events)

\* C7: when subprocess.run fails to launch, the error reaches the caller and,
\* unless cleanup is inhibited, cleanup() has run and no asset remains
C7_LaunchFailureCleansUp ==
    "launch failed" \in Range(events) =>
        /\ pc = "raised"
        /\ error = "OSError"
        /\ ~runner.inhibit_cleanup =>
               /\ "cleanup" \in Range(events)
               /\ Assets \cap DOMAIN disk = {}

\* the raw text declares a class, at some depth, with a base whose name
\* contains PostconditionBase
HasCandidate(t) ==
    /\ t.syntax_ok
    /\ \E node \in Range(walk(t.body)) :
           \E j \in 1..Len(node.bases) :
               /\ node.bases[j].node = "Name"
               /\ Contains(node.bases[j].id, POSTCONDITIONBASE)

ValidationErrors == {"ValueError", "SyntaxError"}

\* C8: for a raw text without such a class the construction of the parser
\* fails with a validation error, no parser object exists and nothing was
\* created on disk; a constructed parser has a class declaration to name
C8_MissingDeclarationFails ==
    pc # "main" =>
        /\ ~HasCandidate(text) =>
               /\ pc = "raised"
               /\ error \in ValidationErrors
               /\ ~script.constructed
               /\ disk = disk0
               /\ calls = <<>>
        /\ script.constructed =>
               /\ class_declaration(script.python_code_string).tag = "node"
               /\ class_declaration(script.python_code_string).name # ""

----------------------------------------------------------------------------
(* One filesystem instance on a disk that another party also works on *)

\* what the instance created and is still on disk
Owned == Assets \cap DOMAIN disk

\* someone else removes one thing the instance created (a file, or the
\* private directory with all it holds), once
RemovedByOther ==
    /\ events = <<>>
    /\ \E p \in Owned :
           disk' = IF disk[p] = DIR THEN rmtree(disk, p) ELSE Remove(disk, {p})
    /\ events' = <<"removed by other">>
    /\ UNCHANGED <<disk0, fs, args, calls, procs>>
    /\ UNCHANGED <<text, script, runner, pc, error, program, child, exit_code,
                   sys_path>>

NextShared == Next \/ RemovedByOther

\* the instance starts on a disk where none of its names is taken
InitShared ==
    /\ InitFs
    /\ disk0 = (PAYLOAD_ZIP :> "zip")
    /\ args.mountpoint \in {<<>>, <<"/","m">>}
    /\ args.dir \in {CURDIR, TMPBASE, <<"t">>}

SpecShared == InitShared /\ [][NextShared]_vars

\* what the calls that did not raise created
Delivered ==
    UNION {calls[i].created : i \in {j \in 1..Len(calls) : calls[j].tag # "raise"}}

\* the first cleanup() call made on the instance
FirstCleanup(i) ==
    /\ calls[i].op = "cleanup"
    /\ \A j \in 1..(i - 1) : calls[j].op # "cleanup"

\* C11: cleanup() does not raise when something the instance created is
\* gone already (removed by someone else), and what else the instance
\* created and returned is released all the same
C11_CleanupToleratesMissing ==
    \A i \in 1..Len(calls) :
        FirstCleanup(i) =>
            /\ calls[i].tag # "raise"
            /\ i = Len(calls) => Delivered \cap DOMAIN disk = {}

----------------------------------------------------------------------------
(* Ownership of created files *)

\* the call in which path p was created
CreatedIn(p) == CHOOSE i \in 1..Len(calls) : p \in calls[i].created

\* the instance was only asked to make and copy files
OnlyMakeOrCopyCalled ==
    \A i \in 1..Len(calls) : calls[i].op \in {"make_file", "copy_file"}

\* C12: on a Same-namespace instance, after any make_file calls (failed ones
\* too), every file the instance created on disk is in files_to_cleanup, and
\* the list holds nothing but files the instance created, in creation order
C12_CreatedRegistered ==
    (fs.kind = "basic" /\ OnlyMakeOrCopyCalled) =>
        /\ Assets \subseteq Range(fs.files_to_cleanup)
        /\ Range(fs.files_to_cleanup) \subseteq Assets
        /\ \A i, j \in 1..Len(fs.files_to_cleanup) :
               i < j => CreatedIn(fs.files_to_cleanup[i])
                            < CreatedIn(fs.files_to_cleanup[j])

----------------------------------------------------------------------------
(* The probing loops, one system call at a time, run by two callers at once *)

\* how a system call ends: with no exception, or with one
NoError == [type |-> "", errno |-> ""]
OSError(errno) == [type |-> "OSError", errno |-> errno]
TypeError == [type |-> "TypeError", errno |-> ""]

\* variant: __exit__ returns True whatever the exception
let_anything_slide(exn) == TRUE

\* _SwallowEEXISTContextManager.__exit__: whether the `with` block ends
\* normally, the exception (if any) swallowed
let_EEXIST_slide(exn) ==
    IF exn = NoError THEN TRUE
    ELSE exn.type = "OSError" /\ exn.errno = "EEXIST"

\* variant: open(path, "wb") / os.makedirs(path, exist_ok=True)
eexist_never(d, path) == FALSE

\* open(path, "xb") and os.mkdir(path) fail with EEXIST, atomically, when
\* the name is taken
eexist(d, path) == path \in DOMAIN d

\* how a creation attempt may end on disk d
CreationOutcomes(d, path) ==
    IF eexist(d, path) THEN {OSError("EEXIST")}
    ELSE {NoError, OSError("EACCES")}

\* how fd.write(bytes) and the close that follows may end
WriteOutcomes == {NoError, OSError("ENOSPC"), TypeError}

Procs == {1, 2}

\* a caller about to run make_file(REPORT_TXT, bytes) on its instance f
Caller(f, bytes) ==
    [fs |-> f, pc |-> IF f.kind = "basic" THEN "open" ELSE "mkdir", k |-> 0,
     bytes |-> bytes, path |-> <<>>, ret |-> <<>>, exc |-> NoError,
     attempts |-> <<>>]

InitProbe ==
    /\ args \in {a \in Constructions : a.class # "MountedVolumeTmpFilesystem"}
    /\ fs = Construct(args)
    /\ procs = [i \in Procs |-> Caller(Construct(args), IF i = 1 THEN "b1" ELSE "b2")]
    /\ \E pre \in SUBSET DOMAIN Taken(fs) : disk = Restrict(Taken(fs), pre)
    /\ disk0 = disk
    /\ calls = <<>>
    /\ Idle

\* the stem a caller is probing names for, and the candidate it is at
Stem(p) ==
    IF p.pc = "mkdir" THEN join(p.fs.tmpdir_base, ANSIBLE_TMP)
    ELSE join(p.fs.tmpdir, REPORT_TXT)

Candidate(p) == filenames_like(Stem(p), p.k)

Attempt(p, op, path, exn) ==
    [p EXCEPT !.attempts =
        Append(@, [op |-> op, stem |-> Stem(p), k |-> p.k, path |-> path,
                   exn |-> exn])]

\* the end of the `with let_EEXIST_slide` block on an exception: the loop
\* goes on to the next candidate, or the exception leaves the method
Slide(p, exn) ==
    IF let_EEXIST_slide(exn)
    THEN [p EXCEPT !.k = @ + 1, !.pc = IF @ = "write" THEN "open" ELSE @]
    ELSE [p EXCEPT !.pc = "raised", !.exc = exn]

ProbeStep(i, p, d) ==
    /\ procs' = [procs EXCEPT ![i] = p]
    /\ disk' = d
    /\ UNCHANGED <<disk0, fs, args, calls>>
    /\ UNCHANGED runvars

\* TmpdirFilesystem.tmpdir: os.mkdir(path) on the current candidate
Mkdir(i) ==
    /\ procs[i].pc = "mkdir"
    /\ \E exn \in CreationOutcomes(disk, Candidate(procs[i])) :
        \E p \in {Attempt(procs[i], "mkdir", Candidate(procs[i]), exn)} :
           IF exn = NoError
           THEN ProbeStep(i, [p EXCEPT !.fs.has_tmpdir = TRUE,
                                       !.fs.tmpdir = Candidate(procs[i]),
                                       !.pc = "open", !.k = 0],
                          Write(disk, Candidate(procs[i]), DIR))
           ELSE ProbeStep(i, Slide(p, exn), disk)

\* make_file: open(path, "xb") on the current candidate
Open(i) ==
    /\ procs[i].pc = "open"
    /\ \E exn \in CreationOutcomes(disk, Candidate(procs[i])) :
        \E p \in {Attempt(procs[i], "open", Candidate(procs[i]), exn)} :
           IF exn = NoError
           THEN ProbeStep(i, [p EXCEPT !.path = Candidate(procs[i]), !.pc = "write"],
                          Write(disk, Candidate(procs[i]), EMPTY))
           ELSE ProbeStep(i, Slide(p, exn), disk)

\* make_file: fd.write(bytes), the file closed, the path noted (by
\* BasicTmpFilesystem) and returned
WriteAndReturn(i) ==
    /\ procs[i].pc = "write"
    /\ \E exn \in WriteOutcomes :
        \E p \in {Attempt(procs[i], "write", procs[i].path, exn)} :
           IF exn = NoError
           THEN ProbeStep(i, [p EXCEPT !.fs = IF @.kind = "basic"
                                               THEN note_file_created(@, p.path)
                                               ELSE @,
                                       !.ret = p.path, !.pc = "done"],
                          Write(disk, p.path, p.bytes))
           ELSE ProbeStep(i, Slide(p, exn), disk)

NextProbe ==
    \/ \E i \in Procs : Mkdir(i)
    \/ \E i \in Procs : Open(i)
    \/ \E i \in Procs : WriteAndReturn(i)

SpecProbe == InitProbe /\ [][NextProbe]_vars

\* the attempts of caller i, by position
AttemptsOf(i) == 1..Len(procs[i].attempts)

\* C13: a creation attempt that ends with EEXIST is followed by an attempt on
\* the next candidate of the same sequence; one that ends with any other
\* error is the caller's last: the operation raises that error and returns
\* no path
C13_OnlyEEXISTRetried ==
    \A i \in Procs : \A n \in AttemptsOf(i) :
        LET a == procs[i].attempts[n]
            last == n = Len(procs[i].attempts)
        IN a.op \in {"mkdir", "open"} =>
            /\ a.exn = OSError("EEXIST") =>
                   /\ last => /\ procs[i].pc = a.op
                              /\ Candidate(procs[i]) = filenames_like(a.stem, a.k + 1)
                   /\ ~last => /\ procs[i].attempts[n + 1].op = a.op
                               /\ procs[i].attempts[n + 1].path =
                                      filenames_like(a.stem, a.k + 1)
            /\ a.exn \notin {NoError, OSError("EEXIST")} =>
                   /\ last
                   /\ procs[i].pc = "raised"
                   /\ procs[i].exc = a.exn
                   /\ procs[i].ret = <<>>

\* one caller slid over two taken names and made its directory under the
\* third, the other slid over them too and was then stopped by EACCES
C13_Witness ==
    /\ fs.kind = "tmpdir"
    /\ Len(procs[1].attempts) >= 3
    /\ procs[1].attempts[1].exn = OSError("EEXIST")
    /\ procs[1].attempts[2].exn = OSError("EEXIST")
    /\ procs[1].attempts[3].exn = NoError
    /\ procs[1].attempts[3].path = join(TMPBASE, ANSIBLE_TMP) \o <<"_","2">>
    /\ procs[2].pc = "raised"
    /\ procs[2].exc = OSError("EACCES")
    /\ Len(procs[2].attempts) = 3
    /\ procs[2].attempts[2].exn = OSError("EEXIST")
    /\ procs[2].attempts[3].exn = OSError("EACCES")


\* the names caller i created (its directory, its file)
CreatedBy(i) ==
    {procs[i].attempts[n].path :
        n \in {n \in AttemptsOf(i) : /\ procs[i].attempts[n].op \in {"mkdir", "open"}
                                     /\ procs[i].attempts[n].exn = NoError}}

\* the files caller i wrote into
WrittenBy(i) ==
    {procs[i].attempts[n].path :
        n \in {n \in AttemptsOf(i) : /\ procs[i].attempts[n].op = "write"
                                     /\ procs[i].attempts[n].exn = NoError}}

\* C20: two callers probing the same names in any interleaving never claim
\* the same name: what one created the other did not, nor was it there
\* before; each writes only into the file it created, inside the directory it
\* created; the returned paths differ and hold their caller's bytes; what was
\* on disk before is as it was
C20_ExclusiveClaim ==
    /\ \A p \in DOMAIN disk0 : p \in DOMAIN disk /\ disk[p] = disk0[p]
    /\ \A i \in Procs :
        /\ CreatedBy(i) \cap DOMAIN disk0 = {}
        /\ WrittenBy(i) \subseteq CreatedBy(i)
        /\ procs[i].fs.kind = "tmpdir" =>
               \A w \in WrittenBy(i) :
                   /\ procs[i].fs.tmpdir \in CreatedBy(i)
                   /\ StartsWith(w, procs[i].fs.tmpdir \o <<SEP>>)
        /\ procs[i].pc = "done" =>
               /\ procs[i].ret \in WrittenBy(i)
               /\ disk[procs[i].ret] = procs[i].bytes
        /\ \A j \in Procs \ {i} :
               /\ CreatedBy(i) \cap CreatedBy(j) = {}
               /\ (procs[i].pc = "done" /\ procs[j].pc = "done") =>
                      procs[i].ret # procs[j].ret

\* both callers returned, one of them after finding the name it tried first
\* taken by the other, next to a file that was there before
C20_Witness ==
    /\ fs.kind = "basic"
    /\ DOMAIN disk0 # {}
    /\ \A i \in Procs : procs[i].pc = "done"
    /\ \E i \in Procs : \E j \in Procs \ {i} : \E n \in AttemptsOf(i) :
           /\ procs[i].attempts[n].exn = OSError("EEXIST")
           /\ procs[i].attempts[n].path \in CreatedBy(j)

----------------------------------------------------------------------------
(* copy_file, the private directory *)

\* the copy_file calls that returned a path
CopiedFiles == {i \in 1..Len(calls) : calls[i].op = "copy_file" /\ calls[i].tag = "path"}

\* the direct note_file_created calls that returned
NotedFiles ==
    {i \in 1..Len(calls) : calls[i].op = "note_file_created" /\ calls[i].tag = "none"}

\* C14: Same-namespace copy_file returns its argument, creates nothing and
\* registers nothing (files_to_cleanup has one entry for each make_file that
\* returned and each note_file_created call, none for a copy_file);
\* Shared-directory copy_file returns the path of a file
\* it has just created inside the private directory, holding the bytes of
\* the source, which is left as it was
C14_CopyFile ==
    /\ fs.kind = "basic" =>
        /\ \A i \in 1..Len(calls) :
               calls[i].op = "copy_file" =>
                   /\ calls[i].tag = "path"
                   /\ calls[i].path = calls[i].arg
                   /\ calls[i].created = {}
        /\ Len(fs.files_to_cleanup) = Cardinality(MadeFiles \cup NotedFiles)
    /\ fs.kind = "tmpdir" =>
        \A i \in CopiedFiles :
            /\ StartsWith(calls[i].path, fs.tmpdir \o <<SEP>>)
            /\ calls[i].path \in calls[i].created
            /\ calls[i].path \notin DOMAIN disk0
            /\ NoCleanupCalled => calls[i].path \in DOMAIN disk
            /\ calls[i].path \in DOMAIN disk =>
                   disk[calls[i].path] = disk0[calls[i].arg]
            /\ disk[calls[i].arg] = disk0[calls[i].arg]

\* a Shared-directory instance copied the payload archive twice: two new
\* files in its directory, both with the bytes of the archive
C14_Witness ==
    /\ fs.kind = "tmpdir"
    /\ fs.tmpdir = join(TMPBASE, ANSIBLE_TMP)
    /\ CopiedFiles = {1, 2}
    /\ calls[1].path =
           fs.tmpdir \o <<"/","a","n","s","i","b","l","e","_","p",".","z","i","p">>
    /\ calls[2].path =
           fs.tmpdir \o <<"/","a","n","s","i","b","l","e","_","p","_","1",".","z","i","p">>
    /\ disk[calls[1].path] = "zip"
    /\ disk[calls[2].path] = "zip"
    /\ disk[PAYLOAD_ZIP] = "zip"


\* the last call made on the instance was cleanup()
JustCleaned == calls # <<>> /\ calls[Len(calls)].op = "cleanup"

\* neither copy_file nor make_file was called on the instance
NoCopyOrMakeCalled ==
    \A i \in 1..Len(calls) : calls[i].op \notin {"copy_file", "make_file"}

\* the tmpdir property of the instance was not read from outside
NoTmpdirRead == \A i \in 1..Len(calls) : calls[i].op # "tmpdir"

\* C15 as stated: cleanup() of a Shared-directory instance on which neither
\* copy_file nor make_file was ever called creates no directory and removes
\* nothing
C15_NothingWithoutCalls ==
    (fs.kind = "tmpdir" /\ JustCleaned /\ NoCopyOrMakeCalled) =>
        /\ \A i \in 1..Len(calls) : calls[i].op = "cleanup" => calls[i].created = {}
        /\ \A i \in 1..Len(calls) : calls[i].op = "cleanup" => calls[i].unlinked = <<>>
        /\ Assets \subseteq DOMAIN disk
        /\ \A p \in DOMAIN disk0 : p \in DOMAIN disk /\ disk[p] = disk0[p]

\* C15: cleanup() of a Shared-directory instance never creates anything and
\* leaves what others put on disk alone; on an instance that never ran
\* copy_file or make_file and whose tmpdir property was never read it
\* returns having removed nothing; once the instance has created its
\* private directory, cleanup() leaves neither the directory nor any file
\* made in it
C15_CleanupRemovesOwnTree ==
    (fs.kind = "tmpdir" /\ JustCleaned) =>
        /\ \A i \in 1..Len(calls) : calls[i].op = "cleanup" => calls[i].created = {}
        /\ \A p \in DOMAIN disk0 : p \in DOMAIN disk /\ disk[p] = disk0[p]
        /\ (NoCopyOrMakeCalled /\ NoTmpdirRead) =>
               /\ \A i \in 1..Len(calls) :
                      calls[i].op = "cleanup" =>
                          calls[i].tag = "none" /\ calls[i].unlinked = <<>>
               /\ disk = disk0
               /\ ~fs.has_tmpdir
        /\ Assets \cap DOMAIN disk = {}
        /\ fs.has_tmpdir => fs.tmpdir \notin DOMAIN disk

\* next to a directory .ansible_tmp of someone else, an instance made
\* .ansible_tmp_1, a file and a copy in it; cleanup() removed the three and
\* nothing else
C15_Witness ==
    /\ fs.kind = "tmpdir"
    /\ join(TMPBASE, ANSIBLE_TMP) \in DOMAIN disk0
    /\ fs.tmpdir = join(TMPBASE, ANSIBLE_TMP) \o <<"_","1">>
    /\ Len(calls) = 3
    /\ calls[1].op = "make_file" /\ calls[1].tag = "path"
    /\ calls[2].op = "copy_file" /\ calls[2].tag = "path"
    /\ calls[3].op = "cleanup" /\ calls[3].tag = "none"
    /\ Cardinality(Assets) = 3
    /\ disk = disk0


\* the names TmpdirFilesystem.tmpdir probes
PrivateDirName(k) == filenames_like(join(fs.tmpdir_base, ANSIBLE_TMP), k)

\* what the instance created right under its base directory: its private
\* directories
PrivateDirs ==
    LET base == fs.tmpdir_base \o <<SEP>>
    IN {p \in Assets :
           /\ StartsWith(p, base)
           /\ \A n \in (Len(base) + 1)..Len(p) : p[n] # SEP}

\* C18: over any copy_file / make_file calls (and reads of its tmpdir
\* property) a Shared-directory instance creates at most one private
\* directory; it is created by the first such call that does not fail before
\* creating it (no call before it returned a path or created anything),
\* under the first name of .ansible_tmp, .ansible_tmp_1, ... that was free,
\* and every path the instance returns lies inside it
C18_OnePrivateDirectory ==
    fs.kind = "tmpdir" =>
      LET dirs == PrivateDirs
      IN
        /\ Cardinality(dirs) <= 1
        /\ (MadeFiles \cup CopiedFiles # {}) => dirs # {}
        /\ \A dir \in dirs :
            /\ fs.tmpdir = dir
            /\ calls[CreatedIn(dir)].op \in {"make_file", "copy_file", "tmpdir"}
            /\ \A i \in 1..(CreatedIn(dir) - 1) :
                   calls[i].tag \in {"raise", "none"} /\ calls[i].created = {}
            /\ (calls[1].tag = "path") => CreatedIn(dir) = 1
            /\ dir \notin DOMAIN disk0
            /\ \E k \in 0..Cardinality(DOMAIN disk0) :
                   /\ dir = PrivateDirName(k)
                   /\ \A j \in 0..(k - 1) : PrivateDirName(j) \in DOMAIN disk0
            /\ \A i \in MadeFiles \cup CopiedFiles :
                   StartsWith(calls[i].path, dir \o <<SEP>>)

\* .ansible_tmp and .ansible_tmp_1 were taken: the first call made
\* .ansible_tmp_2, and the three paths returned are files in it
C18_Witness ==
    /\ fs.kind = "tmpdir"
    /\ {PrivateDirName(0), PrivateDirName(1)} \subseteq DOMAIN disk0
    /\ PrivateDirs = {join(TMPBASE, ANSIBLE_TMP) \o <<"_","2">>}
    /\ CreatedIn(join(TMPBASE, ANSIBLE_TMP) \o <<"_","2">>) = 1
    /\ Len(calls) = 3
    /\ MadeFiles \cup CopiedFiles = {1, 2, 3}
    /\ CopiedFiles # {}

----------------------------------------------------------------------------
(* The bootstrap section, the order of events in run_and_exit *)

\* the payload archives among the entries of sys.path, in their order
Payloads == ansiballz_payload_zip_paths(sys_path)

\* C16: in a composed program the bootstrap section is "import sys" and then,
\* for the n-th payload archive of sys.path, one sys.path.insert(0, ...)
\* naming the path that the n-th call on the bound filesystem, copy_file of
\* that archive, returned: the path of the copy made (as seen from inside
\* the mounted volume, if any), not the archive's own, unless the filesystem
\* is the Same-namespace one
C16_BootstrapNamesCopies ==
    program # NoProgram =>
        /\ Len(program.ansiballz) = 1 + Len(Payloads)
        /\ program.ansiballz[1].stmt = "import sys"
        /\ Len(calls) > Len(Payloads)
        /\ calls[Len(Payloads) + 1].op = "make_file"
        /\ \A n \in 1..Len(Payloads) :
            /\ calls[n].op = "copy_file"
            /\ calls[n].arg = Payloads[n]
            /\ calls[n].tag = "path"
            /\ program.ansiballz[n + 1].stmt = "sys.path.insert(0, '''%s''')"
            /\ program.ansiballz[n + 1].path = calls[n].path
            /\ CASE fs.kind = "basic" -> calls[n].path = Payloads[n]
                 [] fs.kind = "tmpdir" ->
                        /\ calls[n].path # Payloads[n]
                        /\ calls[n].path \in calls[n].created
                 [] fs.kind = "mounted" ->
                        /\ calls[n].path # Payloads[n]
                        /\ fs.mountpoint \o calls[n].path \in calls[n].created

\* sys.path held /r/ansible_p.zip, /usr/lib, /s/ansible_p.zip; the runner
\* on a Shared-directory filesystem inserts the two copies, in that order
C16_Witness ==
    /\ program # NoProgram
    /\ fs.kind = "tmpdir"
    /\ sys_path = <<PAYLOAD2_ZIP, USR_LIB, PAYLOAD_ZIP>>
    /\ Len(program.ansiballz) = 3
    /\ program.ansiballz[2].path =
           join(TMPBASE, ANSIBLE_TMP)
           \o <<"/","a","n","s","i","b","l","e","_","p",".","z","i","p">>
    /\ program.ansiballz[3].path =
           join(TMPBASE, ANSIBLE_TMP)
           \o <<"/","a","n","s","i","b","l","e","_","p","_","1",".","z","i","p">>
    /\ calls[1].arg = PAYLOAD2_ZIP
    /\ calls[2].arg = PAYLOAD_ZIP


\* the events of a run_and_exit that launches its subprocess, in order
ExpectedEvents ==
    IF runner.inhibit_cleanup THEN <<"launch", "terminated", "exit">>
    ELSE <<"launch", "terminated", "cleanup", "exit">>

IsPrefix(s, t) == Len(s) <= Len(t) /\ s = SubSeq(t, 1, Len(s))

\* C17: in run_and_exit the subprocess is launched and terminates, then
\* cleanup() is invoked (once, and only if cleanup is not inhibited), then
\* the caller exits; whatever the subprocess's exit code, nothing is raised
\* after its termination and the run ends with all these events
C17_EventOrder ==
    "launch" \in Range(events) =>
        /\ IsPrefix(events, ExpectedEvents)
        /\ child.state = "terminated" => pc # "raised" /\ error = ""
        /\ pc = "exited" <=> events = ExpectedEvents
        /\ "cleanup" \in Range(events) <=>
               \E i \in 1..Len(calls) : calls[i].op = "cleanup"
        /\ Cardinality({i \in 1..Len(calls) : calls[i].op = "cleanup"}) <= 1

\* the subprocess ended with status 1 (an uncaught exception); cleanup ran
\* after that and the caller exited with 1
C17_Witness ==
    /\ pc = "exited"
    /\ child.returncode = 1
    /\ exit_code = 1
    /\ events = <<"launch", "terminated", "cleanup", "exit">>
    /\ Assets # {}
    /\ Assets \cap DOMAIN disk = {}

----------------------------------------------------------------------------
(* Which class the parser names *)

\* the class statements of a text in document order, each with its nesting
\* depth
RECURSIVE DocumentOrder(_, _)
DocumentOrder(nodes, depth) ==
    IF nodes = <<>> THEN <<>>
    ELSE <<[name |-> Head(nodes).name, bases |-> Head(nodes).bases, depth |-> depth]>>
         \o DocumentOrder(Head(nodes).body, depth + 1)
         \o DocumentOrder(Tail(nodes), depth)

\* a class statement with a base named after PostconditionBase
IsCandidate(c) ==
    \E j \in 1..Len(c.bases) :
        c.bases[j].node = "Name" /\ Contains(c.bases[j].id, POSTCONDITIONBASE)

\* positions of the candidates among the class statements of the script
Candidates == {n \in 1..Len(DocumentOrder(text.body, 0)) :
                  IsCandidate(DocumentOrder(text.body, 0)[n])}

\* the class the constructed parser found, and the one the program names
ChosenName == class_declaration(script.python_code_string).name

\* C19 as stated: the parser names the candidate that comes first in
\* document order, at whatever depth
C19_FirstInDocumentOrder ==
    script.constructed =>
        \E n \in Candidates :
            /\ \A o \in Candidates : n <= o
            /\ ChosenName = DocumentOrder(text.body, 0)[n].name

\* C19, amended: the parser names the candidate of least nesting depth, the
\* first in document order among the candidates at that depth, and that is
\* the class the result expression instantiates
C19_ShallowestFirst ==
    script.constructed =>
        /\ \E n \in Candidates :
            LET d == DocumentOrder(text.body, 0)
            IN /\ \A o \in Candidates :
                      \/ d[n].depth < d[o].depth
                      \/ d[n].depth = d[o].depth /\ n <= o
               /\ ChosenName = d[n].name
        /\ program # NoProgram =>
               program.run = <<"postconditions.run_postcondition(", ChosenName,
                               "(), check_mode=",
                               IF runner.check_mode THEN "True" ELSE "False", ")">>

\* class Helper(object) holding class Postcondition(PostconditionBase), then
\* class Check(MyPostconditionBase) at top level: the program runs Check
C19_Witness ==
    /\ script.constructed
    /\ Cardinality(Candidates) = 2
    /\ DocumentOrder(text.body, 0)[2].name = "Postcondition"
    /\ DocumentOrder(text.body, 0)[2].depth = 1
    /\ ChosenName = "Check"
    /\ program # NoProgram
    /\ program.run[2] = "Check"

====
